---- MODULE Spec2Model ----
(***************************************************************************)
(* A model of directional::parameterize                                    *)
(* (include/directional/parameterize.h).  One call of the routine is a     *)
(* state machine whose program counter walks through the source: the      *)
(* triple loop that pushes the triplets of d0 and M1 and fills gamma, the  *)
(* construction of d0, M1 and EtE, the triplets of A, the right-hand side  *)
(* b, SparseLU's compute and solve, and the final product written to       *)
(* cornerUV.  Reals are modelled by integers: every input is a small       *)
(* integer, so every sum and product the routine forms is exact.           *)
(***************************************************************************)
EXTENDS Integers, Sequences, FiniteSets

\* ------------------------------------------------------------------ bounds
MaxF == 2        \* most faces of an input mesh
MaxN == 2        \* most branches of an input field
MaxC == 1        \* most constraint rows

\* --------------------------------------------------------- linear algebra
\* Vectors (Eigen::VectorXd) are functions on 0..n-1.  A sparse matrix
\* (Eigen::SparseMatrix<double>) is [rows, cols, nz] with nz a function from
\* the coordinates <<row, col>> of its nonzero entries to their values.

RECURSIVE SumSet(_, _)
SumSet(f, S) ==
    IF S = {} THEN 0
    ELSE LET e == CHOOSE e \in S : TRUE IN f[e] + SumSet(f, S \ {e})

Size(v) == Cardinality(DOMAIN v)

ZeroVec(n) == [q \in 0..(n - 1) |-> 0]

ConstVec(n, g) == [q \in 0..(n - 1) |-> g]

\* v followed by w
Concat(v, w) ==
    [q \in 0..(Size(v) + Size(w) - 1) |->
        IF q < Size(v) THEN v[q] ELSE w[q - Size(v)]]

\* A dense matrix (Eigen::MatrixXd, MatrixXi): e[r][c] is its entry (r, c).
Dense(n, m, e) == [rows |-> n, cols |-> m, e |-> e]

ZeroMat(n, m) == [rows |-> n, cols |-> m, nz |-> [p \in {} |-> 0]]

At(M, r, c) == IF <<r, c>> \in DOMAIN M.nz THEN M.nz[<<r, c>>] ELSE 0

\* SparseMatrix::setFromTriplets: entries with the same coordinates are summed.
SetFromTriplets(n, m, T) ==
    LET coords == {<<T[q][1], T[q][2]>> : q \in DOMAIN T}
        at(p) == {q \in DOMAIN T : <<T[q][1], T[q][2]>> = p}
        val(p) == SumSet([q \in at(p) |-> T[q][3]], at(p))
    IN [rows |-> n, cols |-> m,
        nz |-> [p \in {q \in coords : val(q) # 0} |-> val(p)]]

Transpose(M) ==
    [rows |-> M.cols, cols |-> M.rows,
     nz |-> [p \in {<<q[2], q[1]>> : q \in DOMAIN M.nz} |-> M.nz[<<p[2], p[1]>>]]]

\* The sparse product; defined when X.cols = Y.rows.
Mul(X, Y) ==
    LET pairs == {pr \in (DOMAIN X.nz) \X (DOMAIN Y.nz) : pr[1][2] = pr[2][1]}
        coords == {<<pr[1][1], pr[2][2]>> : pr \in pairs}
        grp(p) == {pr \in pairs : pr[1][1] = p[1] /\ pr[2][2] = p[2]}
        val(p) == SumSet([pr \in grp(p) |-> X.nz[pr[1]] * Y.nz[pr[2]]], grp(p))
    IN [rows |-> X.rows, cols |-> Y.cols,
        nz |-> [p \in {q \in coords : val(q) # 0} |-> val(p)]]

\* The product of a sparse matrix and a dense vector; defined when M.cols = Size(v).
MatVec(M, v) ==
    [r \in 0..(M.rows - 1) |->
        LET cs == {p \in DOMAIN M.nz : p[1] = r}
        IN SumSet([p \in cs |-> M.nz[p] * v[p[2]]], cs)]

\* The minor of M without row 0 and column c.
Minor(M, c) ==
    LET keep == {p \in DOMAIN M.nz : p[1] > 0 /\ p[2] # c}
        shift(p) == <<p[1] - 1, IF p[2] > c THEN p[2] - 1 ELSE p[2]>>
        back(p) == <<p[1] + 1, IF p[2] >= c THEN p[2] + 1 ELSE p[2]>>
    IN [rows |-> M.rows - 1, cols |-> M.cols - 1,
        nz |-> [p \in {shift(q) : q \in keep} |-> M.nz[back(p)]]]

\* The determinant of a square matrix, by expansion along row 0.
RECURSIVE Det(_)
Det(M) ==
    IF M.rows = 0 THEN 1
    ELSE LET row0 == {p \in DOMAIN M.nz : p[1] = 0}
         IN SumSet([p \in row0 |->
                      (IF p[2] % 2 = 0 THEN 1 ELSE -1) * M.nz[p] * Det(Minor(M, p[2]))],
                   row0)

\* ------------------------------------------------------------------ inputs
\* A row of three entries, indexed 0..2 as Eigen does.
Tri(a, b, c) == [q \in 0..2 |-> IF q = 0 THEN a ELSE IF q = 1 THEN b ELSE c]

\* The faces of a strip of nF counter-clockwise triangles.
StripFaces(nF) ==
    [f \in 0..(nF - 1) |->
        IF f % 2 = 0 THEN Tri(f, f + 1, f + 2) ELSE Tri(f + 1, f, f + 2)]

\* Input meshes: a strip of nF counter-clockwise triangles in the plane z = 0;
\* the only face of the one-triangle strip has corners (0,0,0), (1,0,0), (0,1,0).
StripV(nF) == Dense(nF + 2, 3, [m \in 0..(nF + 1) |-> Tri(m % 2, m \div 2, 0)])

StripF(nF) == Dense(nF, 3, StripFaces(nF))

\* The global edge between strip vertices a and b.
EdgeId(a, b) ==
    LET lo == IF a < b THEN a ELSE b
        hi == IF a < b THEN b ELSE a
    IN IF hi = lo + 1 THEN 2 * lo ELSE 2 * lo + 1

\* Local edge q of a face runs from corner q to corner (q+1)%3.
StripFE(nF) ==
    Dense(nF, 3,
          [f \in 0..(nF - 1) |->
              [q \in 0..2 |-> EdgeId(StripFaces(nF)[f][q], StripFaces(nF)[f][(q + 1) % 3])]])

\* The unit vector of the plane turned by d quarter turns from the x axis.
FieldDir(d) ==
    IF d % 4 = 0 THEN Tri(1, 0, 0)
    ELSE IF d % 4 = 1 THEN Tri(0, 1, 0)
    ELSE IF d % 4 = 2 THEN Tri(-1, 0, 0)
    ELSE Tri(0, -1, 0)

\* Input fields, #F by width in xyzxyz format: branch c \div 3 of every face
\* is the x axis turned by c \div 3 quarter turns; columns past the last
\* whole branch hold 0.
FieldOf(nF, width) ==
    Dense(nF, width,
          [f \in 0..(nF - 1) |->
              [c \in 0..(width - 1) |->
                  IF c < 3 * (width \div 3) THEN FieldDir(c \div 3)[c % 3] ELSE 0]])

\* Input weights, one per edge of the strip: all wBase, or wBase, wBase + 1,
\* ... taken within {0, 1, 2}.
WeightsOf(nF, wBase, wStep) ==
    [e \in 0..(2 * nF) |-> (wBase + e * wStep) % 3]

\* Input corner maps with nRows rows.  "corner": the identity (one unknown per
\* corner and branch); "vertex": corner q of face f and branch t read unknown
\* nn * F(f,q) + t (one unknown per vertex and branch).
CornerMapOf(kind, nRows, nn, nF) ==
    LET nCols == IF kind = "corner" THEN nRows ELSE nn * (nF + 2)
        col(r) == IF kind = "corner" \/ r >= 3 * nn * nF THEN r
                  ELSE nn * StripFaces(nF)[r \div (3 * nn)][(r % (3 * nn)) \div nn] + (r % nn)
    IN [rows |-> nRows, cols |-> nCols,
        nz |-> [p \in {<<r, col(r)>> : r \in {q \in 0..(nRows - 1) : col(q) < nCols}} |-> 1]]

\* Input constraints: row q pins unknown q.
ConstraintsOf(nRows, nCols) ==
    [rows |-> nRows, cols |-> nCols,
     nz |-> [p \in {<<q, q>> : q \in {r \in 0..(nRows - 1) : r < nCols}} |-> 1]]

FieldWidths == {3 * n : n \in 1..MaxN} \cup {2, 4}

\* What the caller's cornerUV may hold when the call starts.
EntryUV == {ZeroVec(0), ConstVec(3, 5)}

\* The values an out-of-bounds read (a product of mismatched sizes in a
\* build without Eigen's assertions) may yield.
Garbage == {0, 7}

\* ------------------------------------------------------------------- state
VARIABLES
    wholeV, wholeF, FE, rawField, edgeWeights, vt2cMat, constraintMat,
    cornerUV0,      \* cornerUV at call entry
    cornerUV,
    pc,             \* the position in the routine
    N, i, j, k,
    d0Triplets, M1Triplets, gamma,
    d0, M1, EtE,
    A, ATriplets, b,
    info,           \* solver.info()
    x

vars == <<wholeV, wholeF, FE, rawField, edgeWeights, vt2cMat, constraintMat,
          cornerUV0, cornerUV, pc, N, i, j, k, d0Triplets, M1Triplets, gamma,
          d0, M1, EtE, A, ATriplets, b, info, x>>

inputs == <<wholeV, wholeF, FE, rawField, edgeWeights, vt2cMat, constraintMat,
            cornerUV0>>

\* Locals that are not constructed yet hold an empty value of their type.
Init ==
    \E nF \in 0..MaxF, width \in FieldWidths,
       wBase \in 0..2, wStep \in 0..1,
       kind \in {"corner", "vertex"}, defect \in {"none", "rows", "cols"},
       nC \in 0..MaxC, uv \in EntryUV :
        /\ wholeV = StripV(nF)
        /\ wholeF = StripF(nF)
        /\ FE = StripFE(nF)
        /\ rawField = FieldOf(nF, width)
        /\ edgeWeights = WeightsOf(nF, wBase, wStep)
        /\ vt2cMat = CornerMapOf(kind,
                                 3 * (width \div 3) * nF + (IF defect = "rows" THEN 1 ELSE 0),
                                 width \div 3, nF)
        /\ constraintMat = ConstraintsOf(nC, vt2cMat.cols + (IF defect = "cols" THEN 1 ELSE 0))
        /\ cornerUV0 = uv
        /\ cornerUV = uv
        /\ pc = "entry"
        /\ N = 0 /\ i = 0 /\ j = 0 /\ k = 0
        /\ d0Triplets = <<>> /\ M1Triplets = <<>> /\ gamma = ZeroVec(0)
        /\ d0 = ZeroMat(0, 0) /\ M1 = ZeroMat(0, 0) /\ EtE = ZeroMat(0, 0)
        /\ A = ZeroMat(0, 0) /\ ATriplets = <<>> /\ b = ZeroVec(0)
        /\ info = "unset" /\ x = ZeroVec(0)

\* ------------------------------------------------------------ the routine
\* The row of d0, M1 and gamma of face ii, corner jj, branch kk.
Row(nn, ii, jj, kk) == 3 * nn * ii + nn * jj + kk

\* Line 63 with the wrap left out.
D0ColNoWrap(nn, ii, jj, kk) == 3 * nn * ii + nn * (jj + 1) + kk

\* The column of the +1 of that row, as line 63 computes it: * and % bind
\* alike and group from the left, so nn*(jj+1)%3 is (nn*(jj+1))%3.
D0Col(nn, ii, jj, kk) == 3 * nn * ii + ((nn * (jj + 1)) % 3) + kk

Dot3(u, v) == u[0] * v[0] + u[1] * v[1] + u[2] * v[2]

\* wholeV.row(wholeF(ii,(jj+1)%3)) - wholeV.row(wholeF(ii,jj))
EdgeVector(ii, jj) ==
    [q \in 0..2 |-> wholeV.e[wholeF.e[ii][(jj + 1) % 3]][q] - wholeV.e[wholeF.e[ii][jj]][q]]

\* rawField.block(ii, 3*kk, 1, 3)
FieldBlock(ii, kk) == [q \in 0..2 |-> rawField.e[ii][3 * kk + q]]

\* Lines 54-58: N and the empty locals.
Enter ==
    /\ pc = "entry"
    /\ N' = rawField.cols \div 3
    /\ d0Triplets' = <<>>
    /\ M1Triplets' = <<>>
    \* gamma(n) is allocated without values; every entry is written by the loop
    \* before anything reads it.
    /\ gamma' = ZeroVec(3 * N' * wholeF.rows)
    /\ i' = 0 /\ j' = 0 /\ k' = 0
    /\ pc' = "loop"
    /\ UNCHANGED <<inputs, cornerUV, d0, M1, EtE, A, ATriplets, b, info, x>>

\* Lines 59-69: one pass of the body of the triple loop, and the counters'
\* step to the next pass.
LoopBody ==
    /\ pc = "loop"
    /\ i < wholeF.rows /\ N > 0
    /\ d0Triplets' = d0Triplets \o
          << <<Row(N, i, j, k), Row(N, i, j, k), -1>>,
             <<Row(N, i, j, k), D0Col(N, i, j, k), 1>> >>
    /\ gamma' = [gamma EXCEPT ![Row(N, i, j, k)] = Dot3(FieldBlock(i, k), EdgeVector(i, j))]
    /\ M1Triplets' = Append(M1Triplets,
                            <<Row(N, i, j, k), Row(N, i, j, k), edgeWeights[FE.e[i][j]]>>)
    /\ k' = IF k + 1 < N THEN k + 1 ELSE 0
    /\ j' = IF k + 1 < N THEN j ELSE IF j + 1 < 3 THEN j + 1 ELSE 0
    /\ i' = IF k + 1 < N \/ j + 1 < 3 THEN i ELSE i + 1
    /\ UNCHANGED <<inputs, cornerUV, pc, N, d0, M1, EtE, A, ATriplets, b, info, x>>

\* Lines 70-76, once the loop has ended: d0 and M1 from their triplets.
BuildDifferentials ==
    /\ pc = "loop"
    /\ ~(i < wholeF.rows /\ N > 0)
    /\ d0' = SetFromTriplets(3 * N * wholeF.rows, 3 * N * wholeF.rows, d0Triplets)
    /\ M1' = SetFromTriplets(3 * N * wholeF.rows, 3 * N * wholeF.rows, M1Triplets)
    /\ pc' = "energy"
    /\ UNCHANGED <<inputs, cornerUV, N, i, j, k, d0Triplets, M1Triplets, gamma,
                   EtE, A, ATriplets, b, info, x>>

\* The square matrix of order n with g on its diagonal.
DiagMat(n, g) ==
    [rows |-> n, cols |-> n,
     nz |-> [p \in {<<q, q>> : q \in {r \in 0..(n - 1) : g # 0}} |-> g]]

\* Line 78 multiplies vt2cMatTranspose (cols = vt2cMat.rows()) by d0T
\* (rows = 3*N*#F); line 95 does the same.
ProductSizesAgree == vt2cMat.rows = 3 * N * wholeF.rows

\* Lines 75-78 when the sizes agree: EtE = vt2cMat^T * d0^T * M1 * d0 * vt2cMat.
BuildEnergy ==
    /\ pc = "energy"
    /\ ProductSizesAgree
    /\ EtE' = Mul(Mul(Mul(Mul(Transpose(vt2cMat), Transpose(d0)), M1), d0), vt2cMat)
    /\ pc' = "assemble"
    /\ UNCHANGED <<inputs, cornerUV, N, i, j, k, d0Triplets, M1Triplets, gamma,
                   d0, M1, A, ATriplets, b, info, x>>

\* Lines 75-78 when they do not: Eigen's assertion ends the process, or,
\* built without assertions, the product reads out of bounds and EtE holds
\* whatever was there (here: one of the Garbage values on its diagonal).
BuildEnergyMismatch ==
    /\ pc = "energy"
    /\ ~ProductSizesAgree
    /\ \/ pc' = "aborted" /\ EtE' = EtE
       \/ /\ pc' = "assemble"
          /\ \E g \in Garbage : EtE' = DiagMat(vt2cMat.cols, g)
    /\ UNCHANGED <<inputs, cornerUV, N, i, j, k, d0Triplets, M1Triplets, gamma,
                   d0, M1, A, ATriplets, b, info, x>>

\* The coordinates of the nonzeros of M in column-major order, the order of
\* "for k < outerSize: for InnerIterator it(M, k)".
ColMajor(M) ==
    LET Stored(p) == p \in DOMAIN M.nz
    IN SelectSeq([n \in 1..(M.rows * M.cols) |-> <<(n - 1) % M.rows, (n - 1) \div M.rows>>],
                 Stored)

\* Lines 83-85: one triplet per entry of EtE.
EnergyTriplets ==
    LET order == ColMajor(EtE)
    IN [n \in DOMAIN order |-> <<order[n][1], order[n][2], EtE.nz[order[n]]>>]

\* Lines 87-92: two triplets per entry of constraintMat, both offset by
\* 3*N*#F.
ConstraintTriplets ==
    LET order == ColMajor(constraintMat)
        off == 3 * N * wholeF.rows
    IN [n \in 1..(2 * Len(order)) |->
          LET p == order[(n + 1) \div 2]
          IN IF n % 2 = 1 THEN <<p[1] + off, p[2], constraintMat.nz[p]>>
             ELSE <<p[2], p[1] + off, constraintMat.nz[p]>>]

\* Lines 80-92: A is constructed empty, of order 3*N*#F + #constraints, and
\* the triplets are collected in ATriplets.  Nothing copies them into A.
AssembleA ==
    /\ pc = "assemble"
    /\ A' = ZeroMat(3 * N * wholeF.rows + constraintMat.rows,
                    3 * N * wholeF.rows + constraintMat.rows)
    /\ ATriplets' = EnergyTriplets \o ConstraintTriplets
    /\ pc' = "rhs"
    /\ UNCHANGED <<inputs, cornerUV, N, i, j, k, d0Triplets, M1Triplets, gamma,
                   d0, M1, EtE, b, info, x>>

\* Lines 94-95 when the sizes agree: b = (vt2cMat^T * d0^T * gamma, 0).
BuildRhs ==
    /\ pc = "rhs"
    /\ ProductSizesAgree
    /\ b' = Concat(MatVec(Mul(Transpose(vt2cMat), Transpose(d0)), gamma),
                   ZeroVec(constraintMat.rows))
    /\ pc' = "compute"
    /\ UNCHANGED <<inputs, cornerUV, N, i, j, k, d0Triplets, M1Triplets, gamma,
                   d0, M1, EtE, A, ATriplets, info, x>>

\* Lines 94-95 when they do not (reached only without assertions).
BuildRhsMismatch ==
    /\ pc = "rhs"
    /\ ~ProductSizesAgree
    /\ \/ pc' = "aborted" /\ b' = b
       \/ /\ pc' = "compute"
          /\ \E g \in Garbage :
                b' = Concat(ConstVec(vt2cMat.cols, g), ZeroVec(constraintMat.rows))
    /\ UNCHANGED <<inputs, cornerUV, N, i, j, k, d0Triplets, M1Triplets, gamma,
                   d0, M1, EtE, A, ATriplets, info, x>>

\* SparseLU::compute reports NumericalIssue when it meets a column without a
\* usable pivot, that is, in exact arithmetic, when the matrix is singular.
FactorizationFails(M) == Det(M) = 0

\* Lines 97-103: the factorization fails and the routine returns.
ComputeFailed ==
    /\ pc = "compute"
    /\ FactorizationFails(A)
    /\ info' = "NumericalIssue"
    /\ pc' = "returned"
    /\ UNCHANGED <<inputs, cornerUV, N, i, j, k, d0Triplets, M1Triplets, gamma,
                   d0, M1, EtE, A, ATriplets, b, x>>

\* Lines 97-104: the factorization succeeds.
ComputeDone ==
    /\ pc = "compute"
    /\ ~FactorizationFails(A)
    /\ info' = "Success"
    /\ pc' = "solve"
    /\ UNCHANGED <<inputs, cornerUV, N, i, j, k, d0Triplets, M1Triplets, gamma,
                   d0, M1, EtE, A, ATriplets, b, x>>

\* M with column c replaced by the vector v.
ReplaceCol(M, c, v) ==
    LET S == {p \in DOMAIN M.nz : p[2] # c} \cup {<<r, c>> : r \in {q \in DOMAIN v : v[q] # 0}}
    IN [rows |-> M.rows, cols |-> M.cols,
        nz |-> [p \in S |-> IF p[2] = c THEN v[p[1]] ELSE M.nz[p]]]

\* The solution of M * y = v for a nonsingular M, by Cramer's rule (exact
\* whenever the solution is integral).
Solution(M, v) == [c \in 0..(M.cols - 1) |-> Det(ReplaceCol(M, c, v)) \div Det(M)]

\* Lines 105-106 when b has as many rows as A and the solve reports success.
SolveDone ==
    /\ pc = "solve"
    /\ Size(b) = A.rows
    /\ x' = Solution(A, b)
    /\ info' = "Success"
    /\ pc' = "write"
    /\ UNCHANGED <<inputs, cornerUV, N, i, j, k, d0Triplets, M1Triplets, gamma,
                   d0, M1, EtE, A, ATriplets, b>>

\* Lines 105-109 with the return of line 108 left out.
SolveFailedNoReturn ==
    /\ pc = "solve"
    /\ Size(b) = A.rows
    /\ \E g \in Garbage : x' = ConstVec(A.cols, g)
    /\ info' = "NumericalIssue"
    /\ pc' = "write"
    /\ UNCHANGED <<inputs, cornerUV, N, i, j, k, d0Triplets, M1Triplets, gamma,
                   d0, M1, EtE, A, ATriplets, b>>

\* Lines 105-109 when the solve reports a failure: x holds whatever the
\* solver left in it, and the routine returns.
SolveFailed ==
    /\ pc = "solve"
    /\ Size(b) = A.rows
    /\ \E g \in Garbage : x' = ConstVec(A.cols, g)
    /\ info' = "NumericalIssue"
    /\ pc' = "returned"
    /\ UNCHANGED <<inputs, cornerUV, N, i, j, k, d0Triplets, M1Triplets, gamma,
                   d0, M1, EtE, A, ATriplets, b>>

\* Lines 105-106 when b has another number of rows than A: the assertion of
\* SparseLU::solve ends the process, or, without assertions, x is read from
\* out of bounds; solve leaves info() as compute set it.
SolveMismatch ==
    /\ pc = "solve"
    /\ Size(b) # A.rows
    /\ \/ pc' = "aborted" /\ x' = x
       \/ /\ pc' = "write"
          /\ \E g \in Garbage : x' = ConstVec(A.cols, g)
    /\ UNCHANGED <<inputs, cornerUV, N, i, j, k, d0Triplets, M1Triplets, gamma,
                   d0, M1, EtE, A, ATriplets, b, info>>

\* Line 113 when x has as many rows as vt2cMat has columns.
WriteCornerUV ==
    /\ pc = "write"
    /\ vt2cMat.cols = Size(x)
    /\ cornerUV' = MatVec(vt2cMat, x)
    /\ pc' = "returned"
    /\ UNCHANGED <<inputs, N, i, j, k, d0Triplets, M1Triplets, gamma,
                   d0, M1, EtE, A, ATriplets, b, info, x>>

\* Line 113 when it has not.
WriteMismatch ==
    /\ pc = "write"
    /\ vt2cMat.cols # Size(x)
    /\ \/ pc' = "aborted" /\ cornerUV' = cornerUV
       \/ /\ pc' = "returned"
          /\ \E g \in Garbage : cornerUV' = ConstVec(vt2cMat.rows, g)
    /\ UNCHANGED <<inputs, N, i, j, k, d0Triplets, M1Triplets, gamma,
                   d0, M1, EtE, A, ATriplets, b, info, x>>

Next ==
    \/ Enter
    \/ LoopBody
    \/ BuildDifferentials
    \/ BuildEnergy
    \/ BuildEnergyMismatch
    \/ AssembleA
    \/ BuildRhs
    \/ BuildRhsMismatch
    \/ ComputeFailed
    \/ ComputeDone
    \/ SolveDone
    \/ SolveFailed
    \/ SolveMismatch
    \/ WriteCornerUV
    \/ WriteMismatch

Spec == Init /\ [][Next]_vars

\* ------------------------------------------------------------------ claims
\* The branch count of the input field.
Branches == rawField.cols \div 3

\* The sizes of the inputs fit each other: vt2cMat has 3*N*#F rows and as
\* many columns as constraintMat, and the field's width is a multiple of 3.
DimsConsistent ==
    /\ vt2cMat.rows = 3 * Branches * wholeF.rows
    /\ vt2cMat.cols = constraintMat.cols
    /\ rawField.cols % 3 = 0

\* The mesh has a face and the field a branch.
NonEmpty == wholeF.rows >= 1 /\ Branches >= 1

\* The call has got as far as handing A to the solver.
HandedToSolver == pc \in {"compute", "solve", "write", "returned"}

\* The columns of the stored entries of row r of M.
RowCols(M, r) == {p[2] : p \in {q \in DOMAIN M.nz : q[1] = r}}

\* C1: for every face ii, corner jj and branch kk, row 3*N*ii + N*jj + kk of
\* the d0 that parameterize builds has exactly two nonzero entries, -1 at
\* column 3*N*ii + N*jj + kk and +1 at column 3*N*ii + N*((jj+1) mod 3) + kk.
C1_DifferenceRows ==
    (pc \notin {"entry", "loop"} /\ DimsConsistent) =>
        \A ii \in 0..(wholeF.rows - 1), jj \in 0..2, kk \in 0..(N - 1) :
            LET r == 3 * N * ii + N * jj + kk
                c == 3 * N * ii + N * ((jj + 1) % 3) + kk
            IN /\ RowCols(d0, r) = {r, c}
               /\ At(d0, r, r) = -1
               /\ At(d0, r, c) = 1

\* The sum of the values of the triplets of T in row r.
TripletRowSum(T, r) ==
    LET at == {q \in DOMAIN T : T[q][1] = r}
    IN SumSet([q \in at |-> T[q][3]], at)

\* C10: every triplet pushed for d0 has its row inside 0..3*N*#F-1 and its
\* column inside the block 3*N*f .. 3*N*f + 3*N - 1 of the face f of its row;
\* every triplet of M1 lies inside the 3*N*#F bounds; the values pushed for
\* one row of d0 sum to zero, and the d0 built from them maps every constant
\* vector to zero.
C10_IndexSafety ==
    /\ \A q \in DOMAIN d0Triplets :
          LET t == d0Triplets[q]
              f == t[1] \div (3 * N)
          IN /\ t[1] \in 0..(3 * N * wholeF.rows - 1)
             /\ t[2] \in (3 * N * f)..(3 * N * f + 3 * N - 1)
    /\ \A q \in DOMAIN M1Triplets :
          /\ M1Triplets[q][1] \in 0..(3 * N * wholeF.rows - 1)
          /\ M1Triplets[q][2] \in 0..(3 * N * wholeF.rows - 1)
    /\ \A r \in 0..(3 * N * wholeF.rows - 1) : TripletRowSum(d0Triplets, r) = 0
    /\ pc \notin {"entry", "loop"} =>
          \A g \in {1, 3} :
              MatVec(d0, ConstVec(3 * N * wholeF.rows, g)) = ZeroVec(3 * N * wholeF.rows)

\* C10's case: the loop has run over a mesh of two or more faces and a field
\* of two or more branches, and d0 is built from all its triplets.
C10_Witness ==
    /\ pc = "energy"
    /\ N >= 2 /\ wholeF.rows >= 2
    /\ Len(d0Triplets) = 2 * 3 * N * wholeF.rows
    /\ d0.rows = 3 * N * wholeF.rows

\* The saddle-point matrix [[E, C^T], [C, 0]].
BlockSystem(E, C) ==
    LET top == {<<p[1], p[2], E.nz[p]>> : p \in DOMAIN E.nz}
        low == {<<p[1] + E.rows, p[2], C.nz[p]>> : p \in DOMAIN C.nz}
        right == {<<p[2], p[1] + E.rows, C.nz[p]>> : p \in DOMAIN C.nz}
        all == top \cup low \cup right
    IN [rows |-> E.rows + C.rows, cols |-> E.rows + C.rows,
        nz |-> [p \in {<<t[1], t[2]>> : t \in all} |->
                  (CHOOSE t \in all : t[1] = p[1] /\ t[2] = p[2])[3]]]

\* C2: the A handed to the solver is square of order vt2cMat.cols() +
\* #constraints, equals [[E, C^T], [C, 0]] with E = P^T D^T M D P, is
\* symmetric, and its order is the length of b.
C2_AugmentedMatrix ==
    (HandedToSolver /\ DimsConsistent /\ NonEmpty) =>
        /\ A.rows = vt2cMat.cols + constraintMat.rows
        /\ A.cols = A.rows
        /\ EtE = Mul(Mul(Mul(Mul(Transpose(vt2cMat), Transpose(d0)), M1), d0), vt2cMat)
        /\ A = BlockSystem(EtE, constraintMat)
        /\ A = Transpose(A)
        /\ A.rows = Size(b)

\* C3: b has vt2cMat.cols() + #constraints entries, the first vt2cMat.cols()
\* of them are P^T * D^T * M * gamma, and the others are zero.
C3_RightHandSide ==
    (HandedToSolver /\ DimsConsistent /\ NonEmpty) =>
        /\ Size(b) = vt2cMat.cols + constraintMat.rows
        /\ \A q \in 0..(vt2cMat.cols - 1) :
              b[q] = MatVec(Mul(Mul(Transpose(vt2cMat), Transpose(d0)), M1), gamma)[q]
        /\ \A q \in vt2cMat.cols..(Size(b) - 1) : b[q] = 0

\* What a successful call leaves in cornerUV is a vector of vt2cMat.rows()
\* entries; the routine returns void, so cornerUV is all it hands back.
LooksLikeResult(v) == Size(v) = vt2cMat.rows

\* C5: when the factorization or the solve fails, what the call returns
\* tells the caller so: it is nothing a successful call could have returned.
C5_FailureSurfaced ==
    (pc = "returned" /\ info # "Success" /\ DimsConsistent /\ NonEmpty) =>
        ~LooksLikeResult(cornerUV)

\* C6: with inconsistent input sizes the call is rejected before any
\* assembly step: no triplet is pushed and no matrix is built.
C6_RejectedBeforeAssembly ==
    (~DimsConsistent /\ NonEmpty) =>
        /\ pc \in {"entry", "loop", "returned"}
        /\ Len(d0Triplets) = 0
        /\ Len(M1Triplets) = 0

\* The single triangle (0,0,0), (1,0,0), (0,1,0) with N = 1, field (1,0,0),
\* every edge weight 1, the identity corner map and one constraint row
\* pinning the unknown of corner 0.
Scenario8 ==
    /\ wholeV = Dense(3, 3, [m \in 0..2 |-> IF m = 0 THEN Tri(0, 0, 0)
                                            ELSE IF m = 1 THEN Tri(1, 0, 0)
                                            ELSE Tri(0, 1, 0)])
    /\ wholeF = Dense(1, 3, [f \in 0..0 |-> Tri(0, 1, 2)])
    /\ rawField = Dense(1, 3, [f \in 0..0 |-> Tri(1, 0, 0)])
    /\ edgeWeights = [e \in 0..2 |-> 1]
    /\ vt2cMat = DiagMat(3, 1)
    /\ constraintMat = [rows |-> 1, cols |-> 3, nz |-> [p \in {<<0, 0>>} |-> 1]]

\* C8: in that scenario the call succeeds and returns cornerUV = [0, 1, 0].
C8_SingleTriangle ==
    (Scenario8 /\ pc \in {"returned", "aborted"}) =>
        /\ pc = "returned"
        /\ info = "Success"
        /\ cornerUV = Tri(0, 1, 0)

\* The order of the positions of the routine.
Rank(p) ==
    CASE p = "entry" -> 0
      [] p = "loop" -> 1
      [] p = "energy" -> 2
      [] p = "assemble" -> 3
      [] p = "rhs" -> 4
      [] p = "compute" -> 5
      [] p = "solve" -> 6
      [] p = "write" -> 7
      [] OTHER -> 8

\* C9: the solve is attempted only after a successful factorization and the
\* write only after a successful solve; a failed factorization or solve ends
\* the call at once; no position is taken twice; cornerUV changes only in the
\* write that ends a call whose two steps succeeded; and after a failure
\* cornerUV holds what it held at call entry.
C9_StepOrder ==
    /\ []((pc = "returned" /\ info # "Success") => cornerUV = cornerUV0)
    /\ [][/\ pc' = "solve" => (pc = "compute" /\ info' = "Success")
          /\ pc' = "write" => (pc = "solve" /\ info' = "Success")
          /\ (pc \in {"compute", "solve"} /\ info' # "Success") => pc' = "returned"
          /\ cornerUV' # cornerUV =>
                (pc = "write" /\ info = "Success" /\ pc' = "returned")
          /\ pc' # pc => Rank(pc') > Rank(pc)
          /\ pc \in {"compute", "solve", "write"} => pc' # pc]_vars

\* C9's case: a call whose factorization and solve succeeded has written
\* cornerUV and returned.
C9_Witness ==
    /\ pc = "returned"
    /\ info = "Success"
    /\ Size(x) = vt2cMat.cols
    /\ cornerUV = MatVec(vt2cMat, x)
    /\ cornerUV # cornerUV0
====
